---------------------------- MODULE Spec2Model ----------------------------
(***************************************************************************)
(* Model of firmament's src/main.rs: the fixed-column star-catalogue       *)
(* loader (load_catalogue / parse_catalogue_line), the per-star vertex     *)
(* data built in main, and main's control flow up to the render loop.      *)
(*                                                                         *)
(* Representation.                                                         *)
(*  - A line is a sequence of one-character strings; the catalogue is      *)
(*    ASCII, so byte offsets and character offsets coincide and every      *)
(*    offset is a character boundary.                                      *)
(*  - An f32 is [k, v]: k = "fin" with v the value in thousandths (exact   *)
(*    for every decimal a four-character field can hold), k = "inf" with   *)
(*    v = 1 or -1, or k = "nan".  The input alphabet has no exponent       *)
(*    character.                                                           *)
(*  - The brightness a = (6.0 - visual_mag)/7.0 is kept in units of        *)
(*    1/7000, colour components in units of 1/140000.                      *)
(*  - sin and cos are not interpreted: a position triple is kept as the    *)
(*    pair of angles (ra, dec) it is computed from, ra in units of         *)
(*    2*pi/86400000 and dec in units of (pi/2)/324000.                     *)
(***************************************************************************)
EXTENDS Integers, Sequences, FiniteSets, TLC

VARIABLES pc, contents, idx, out, catalogue, star_data, frames, abortAt

vars == <<pc, contents, idx, out, catalogue, star_data, frames, abortAt>>

\* ------------------------------------------------------------------ bounds

MaxLines == 3

MaxFrames == 2

\* ------------------------------------------------------- strings and slices

Digits == {"0", "1", "2", "3", "4", "5", "6", "7", "8", "9"}

DigitVal(c) ==
    CASE c = "0" -> 0 [] c = "1" -> 1 [] c = "2" -> 2 [] c = "3" -> 3
      [] c = "4" -> 4 [] c = "5" -> 5 [] c = "6" -> 6 [] c = "7" -> 7
      [] c = "8" -> 8 [] c = "9" -> 9

\* Mutant of Get: the range is cut to the string instead of refused.
Get_clamped(line, a, b) ==
    [some |-> TRUE,
     s |-> SubSeq(line, a + 1, IF b <= Len(line) THEN b ELSE Len(line))]

\* Mutant of Get: the offsets are taken as the catalogue's one-based columns.
Get_one_based(line, a, b) ==
    IF a <= b /\ b <= Len(line)
    THEN [some |-> TRUE, s |-> SubSeq(line, a, b - 1)]
    ELSE [some |-> FALSE, s |-> <<>>]

\* str::get(a..b): None when the range runs past the end of the string.
Get(line, a, b) ==
    IF a <= b /\ b <= Len(line)
    THEN [some |-> TRUE, s |-> SubSeq(line, a + 1, b)]
    ELSE [some |-> FALSE, s |-> <<>>]

\* ----------------------------------------------------------- integer parse

IntErr == [ok |-> FALSE, v |-> 0]

\* The digit loop of from_str_radix: checked multiply by ten, then checked
\* add (or subtract, for a negative number) of the digit.
RECURSIVE AccDigits(_, _, _, _, _)
AccDigits(s, acc, neg, lo, hi) ==
    IF s = <<>> THEN [ok |-> TRUE, v |-> acc]
    ELSE IF Head(s) \notin Digits THEN IntErr
    ELSE LET m == acc * 10
             n == IF neg THEN m - DigitVal(Head(s)) ELSE m + DigitVal(Head(s))
         IN  IF m < lo \/ m > hi \/ n < lo \/ n > hi
             THEN IntErr
             ELSE AccDigits(Tail(s), n, neg, lo, hi)

\* str::parse for a signed integer type with range lo..hi.
ParseInt(s, lo, hi) ==
    IF s = <<>> THEN IntErr
    ELSE IF Len(s) = 1 /\ Head(s) \in {"+", "-"} THEN IntErr
    ELSE AccDigits(IF Head(s) \in {"+", "-"} THEN Tail(s) ELSE s,
                   0, Head(s) = "-", lo, hi)

RECURSIVE TrimStart(_)
TrimStart(s) == IF s # <<>> /\ Head(s) = " " THEN TrimStart(Tail(s)) ELSE s

\* Mutant of ParseI8: leading blanks are skipped before parsing.
ParseI8_trimmed(s) == ParseInt(TrimStart(s), -128, 127)

ParseI8(s) == ParseInt(s, -128, 127)

\* i64 is wider than any six-character field can overflow; the checked range
\* is written as the widest one the model checker's integers hold.
ParseI64(s) == ParseInt(s, -2147483647, 2147483647)

\* ------------------------------------------------------------- float parse

Fin(v) == [k |-> "fin", v |-> v]

Inf(sgn) == [k |-> "inf", v |-> sgn]

NaN == [k |-> "nan", v |-> 0]

F32Err == [ok |-> FALSE, f |-> Fin(0)]

F32Ok(f) == [ok |-> TRUE, f |-> f]

LowerChar(c) ==
    CASE c = "I" -> "i" [] c = "N" -> "n" [] c = "F" -> "f" [] c = "A" -> "a"
      [] c = "T" -> "t" [] c = "Y" -> "y" [] OTHER -> c

Lower(s) == [i \in 1..Len(s) |-> LowerChar(s[i])]

\* Position of the decimal point in s, or Len(s) + 1 when there is none.
DotPos(s) ==
    IF \E i \in 1..Len(s) : s[i] = "."
    THEN CHOOSE i \in 1..Len(s) : s[i] = "." /\ \A j \in 1..(i - 1) : s[j] # "."
    ELSE Len(s) + 1

\* digits, optionally a point, digits: at least one digit, one point at most.
IsDecimal(s) ==
    /\ \A i \in 1..Len(s) : s[i] \in Digits \cup {"."}
    /\ Cardinality({i \in 1..Len(s) : s[i] = "."}) <= 1
    /\ \E i \in 1..Len(s) : s[i] \in Digits

RECURSIVE DigitsValue(_, _)
DigitsValue(s, acc) ==
    IF s = <<>> THEN acc ELSE DigitsValue(Tail(s), acc * 10 + DigitVal(Head(s)))

Pow10(n) == CASE n = 0 -> 1 [] n = 1 -> 10 [] n = 2 -> 100 [] n = 3 -> 1000

\* The value of a decimal with at most three fractional digits, in thousandths.
Milli(s) ==
    LET d    == DotPos(s)
        ip   == SubSeq(s, 1, d - 1)
        fp   == SubSeq(s, d + 1, Len(s))
    IN  DigitsValue(ip, 0) * 1000 + DigitsValue(fp, 0) * Pow10(3 - Len(fp))

\* str::parse::<f32>: an optional sign, then a decimal number, or (in any
\* letter case) inf, infinity or nan.  No surrounding blanks are accepted.
ParseF32(s) ==
    IF s = <<>> THEN F32Err
    ELSE LET neg == Head(s) = "-"
             r   == IF Head(s) \in {"+", "-"} THEN Tail(s) ELSE s
         IN  IF r = <<>> THEN F32Err
             ELSE IF IsDecimal(r)
                  THEN F32Ok(Fin(IF neg THEN 0 - Milli(r) ELSE Milli(r)))
             ELSE IF Lower(r) \in {<<"i", "n", "f">>,
                                   <<"i", "n", "f", "i", "n", "i", "t", "y">>}
                  THEN F32Ok(Inf(IF neg THEN -1 ELSE 1))
             ELSE IF Lower(r) = <<"n", "a", "n">> THEN F32Ok(NaN)
             ELSE F32Err

\* --------------------------------------------------------------- SpecType

SpecType == {"O", "B", "A", "F", "G", "K", "M"}

\* Mutant of match_spec_type: the wildcard arm yields O instead of panicking.
match_spec_type_lenient(s) ==
    CASE s \in {<<"O">>, <<"W">>, <<"p">>} -> "O"
      [] s = <<"B">> -> "B"
      [] s = <<"A">> -> "A"
      [] s = <<"F">> -> "F"
      [] s = <<"G">> -> "G"
      [] s = <<"K">> -> "K"
      [] s \in {<<"M">>, <<"S">>, <<"N">>, <<"C">>} -> "M"
      [] OTHER -> "O"

\* The match on the spectral-code slice; "panic" is the wildcard arm.
match_spec_type(s) ==
    CASE s = <<"O">> -> "O"
      [] s = <<"B">> -> "B"
      [] s = <<"A">> -> "A"
      [] s = <<"F">> -> "F"
      [] s = <<"G">> -> "G"
      [] s = <<"K">> -> "K"
      [] s = <<"M">> -> "M"
      [] s = <<"S">> -> "M"
      [] s = <<"N">> -> "M"
      [] s = <<"C">> -> "M"
      [] s = <<"W">> -> "O"
      [] s = <<"p">> -> "O"
      [] OTHER -> "panic"

\* ------------------------------------------------------------------- Star

NoStar == [hd_num |-> 0, ra_hours |-> 0, ra_mins |-> 0, ra_seconds |-> Fin(0),
           dec_deg |-> 0, dec_mins |-> 0, dec_seconds |-> 0,
           visual_mag |-> Fin(0), spec_type |-> "O"]

Some(star) == [kind |-> "some", star |-> star, at |-> 0]

None == [kind |-> "none", star |-> NoStar, at |-> 0]

\* A panic (unwrap on None or Err, or the panic! arm), with its source line.
Panic(at) == [kind |-> "abort", star |-> NoStar, at |-> at]

\* i8 * i8.  The factors are a two-character field's value (-9..99) and
\* 1 or -1, so the product is always within i8.
MulI8(a, b) == a * b

\* The Some(Star {..}) arm: the fields are evaluated in the order written.
build_star(line, dec_sign, ra_hours, vis_mag) ==
    LET hd   == Get(line, 25, 31)
        rm   == Get(line, 77, 79)
        rs   == Get(line, 79, 83)
        dd   == Get(line, 84, 86)
        dm   == Get(line, 86, 88)
        ds   == Get(line, 88, 90)
        sp   == Get(line, 129, 130)
    IN  IF ~hd.some THEN Panic(57)
        ELSE IF ~rm.some \/ ~ParseI8(rm.s).ok THEN Panic(59)
        ELSE IF ~rs.some \/ ~ParseF32(rs.s).ok THEN Panic(60)
        ELSE IF ~dd.some \/ ~ParseI8(dd.s).ok THEN Panic(61)
        ELSE IF ~dm.some \/ ~ParseI8(dm.s).ok THEN Panic(62)
        ELSE IF ~ds.some \/ ~ParseI8(ds.s).ok THEN Panic(63)
        ELSE IF ~sp.some THEN Panic(65)
        ELSE IF match_spec_type(sp.s) = "panic" THEN Panic(79)
        ELSE Some([hd_num      |-> IF ParseI64(hd.s).ok THEN ParseI64(hd.s).v ELSE 0,
                   ra_hours    |-> ra_hours,
                   ra_mins     |-> ParseI8(rm.s).v,
                   ra_seconds  |-> ParseF32(rs.s).f,
                   dec_deg     |-> MulI8(ParseI8(dd.s).v, dec_sign),
                   dec_mins    |-> MulI8(ParseI8(dm.s).v, dec_sign),
                   dec_seconds |-> MulI8(ParseI8(ds.s).v, dec_sign),
                   visual_mag  |-> vis_mag,
                   spec_type   |-> match_spec_type(sp.s)])

\* Mutant of dec_sign_of: only "-" is negative.
dec_sign_of_minus_only(s) == IF s = <<"-">> THEN -1 ELSE 1

\* let dec_sign: i8 = if .. == "+" { 1 } else { -1 }
dec_sign_of(s) == IF s = <<"+">> THEN 1 ELSE -1

\* Mutant of accept: either field parsing is enough.
accept_either(_ra_hours, _vis_mag) == _ra_hours.ok \/ _vis_mag.ok

\* if _ra_hours.is_ok() && _vis_mag.is_ok()
accept(_ra_hours, _vis_mag) == _ra_hours.ok /\ _vis_mag.ok

parse_catalogue_line(line) ==
    LET sg == Get(line, 83, 84)
        rh == Get(line, 75, 77)
        vm == Get(line, 103, 107)
    IN  IF ~sg.some THEN Panic(51)
        ELSE IF ~rh.some THEN Panic(52)
        ELSE IF ~vm.some THEN Panic(53)
        ELSE LET dec_sign  == dec_sign_of(sg.s)
                 _ra_hours == ParseI8(rh.s)
                 _vis_mag  == ParseF32(vm.s)
             IN  IF accept(_ra_hours, _vis_mag)
                 THEN build_star(line, dec_sign, _ra_hours.v, _vis_mag.f)
                 ELSE None

\* --------------------------------------------------------------- projector

\* f32 arithmetic on the [k, v] representation.
\* 6.0 - x, in thousandths.
F32SubFrom6(x) ==
    CASE x.k = "fin" -> Fin(6000 - x.v)
      [] x.k = "inf" -> Inf(0 - x.v)
      [] x.k = "nan" -> NaN

\* x / 7.0: thousandths become units of 1/7000.
F32Div7(x) == x

\* Mutant of F32Max0: the lower clamp is missing.
F32Max0_missing(x) == x

\* f32::max(x, 0.0): the other operand when one is NaN.
F32Max0(x) ==
    CASE x.k = "fin" -> Fin(IF x.v > 0 THEN x.v ELSE 0)
      [] x.k = "inf" -> IF x.v > 0 THEN x ELSE Fin(0)
      [] x.k = "nan" -> Fin(0)

\* x * (n/20) for a positive factor, units of 1/7000 becoming 1/140000.
F32Scale(x, n) == IF x.k = "fin" THEN Fin(x.v * n) ELSE x

\* let a = ((6.0 - s.visual_mag)/7.0).max(0.0)
brightness(visual_mag) == F32Max0(F32Div7(F32SubFrom6(visual_mag)))

\* The [r, g, b] match on spec_type; factors 1, 0.9, 0.75, 0.5 as n/20.
colour(spec_type, a) ==
    CASE spec_type \in {"O", "B", "A", "F"} ->
             <<F32Scale(a, 20), F32Scale(a, 20), F32Scale(a, 20)>>
      [] spec_type = "G" -> <<F32Scale(a, 20), F32Scale(a, 20), F32Scale(a, 18)>>
      [] spec_type = "K" -> <<F32Scale(a, 20), F32Scale(a, 18), F32Scale(a, 15)>>
      [] spec_type = "M" -> <<F32Scale(a, 20), F32Scale(a, 15), F32Scale(a, 10)>>

\* Star::equatorial_position_as_radians: ra in units of 2*pi/86400000,
\* dec in units of (pi/2)/324000.
equatorial_position_as_radians(s) ==
    [ra  |-> IF s.ra_seconds.k = "fin"
             THEN Fin(s.ra_hours * 3600000 + s.ra_mins * 60000 + s.ra_seconds.v)
             ELSE s.ra_seconds,
     dec |-> s.dec_deg * 3600 + s.dec_mins * 60 + s.dec_seconds]

\* One coordinate of the point on the sphere of radius 10, sin and cos left
\* uninterpreted: axis "x" is -10 sin(ra) cos(dec), "y" is 10 sin(dec), "z" is
\* -10 cos(ra) cos(dec).
Coord(axis, p) == [axis |-> axis, ra |-> p.ra, dec |-> p.dec]

\* The six values one iteration of the for loop pushes.
star_vertex(s) ==
    LET p == equatorial_position_as_radians(s)
        a == brightness(s.visual_mag)
    IN  <<Coord("x", p), Coord("y", p), Coord("z", p)>> \o colour(s.spec_type, a)

RECURSIVE build_star_data(_)
build_star_data(stars) ==
    IF stars = <<>> THEN <<>>
    ELSE star_vertex(Head(stars)) \o build_star_data(Tail(stars))

\* ------------------------------------------------------------------ inputs

Blanks(n) == [i \in 1..n |-> " "]

\* A catalogue line of len characters with the given fields at their columns.
MkLine(len, hd, rah, ram, ras, sign, dd, dm, ds, vm, sp) ==
    SubSeq(Blanks(25) \o hd \o Blanks(44) \o rah \o ram \o ras \o sign
             \o dd \o dm \o ds \o Blanks(13) \o vm \o Blanks(22) \o sp
             \o Blanks(1),
           1, len)

LineLens == {0, 60, 84, 90, 106, 107, 110, 129, 130, 131}

HdFields == {<<"0", "3", "9", "8", "0", "1">>, <<" ", " ", " ", "4", "3", "2">>}

RaHourFields == {<<"0", "6">>, <<" ", " ">>}

RaMinFields == {<<"4", "5">>, <<" ", "5">>}

RaSecFields == {<<"0", "8", ".", "9">>, <<" ", " ", " ", " ">>}

SignFields == {<<"+">>, <<"-">>, <<" ">>}

DegFields == {<<"1", "6">>, <<"-", "5">>, <<" ", " ">>}

DecMinFields == {<<"4", "2">>, <<"0", "0">>, <<"4", "x">>}

DecSecFields == {<<"5", "8">>, <<" ", "8">>}

MagFields == {<<"2", ".", "5", "0">>, <<"-", "1", ".", "5">>, <<" ", " ", " ", " ">>}

SpFields == {<<"O">>, <<"B">>, <<"A">>, <<"F">>, <<"G">>, <<"K">>, <<"M">>,
             <<"S">>, <<"N">>, <<"C">>, <<"W">>, <<"p">>,
             <<"X">>, <<" ">>, <<"o">>, <<"P">>}

LineFamily(lens, hds, rahs, rams, rass, signs, dds, dms, dss, vms, sps) ==
    { MkLine(len, hd, rah, ram, ras, sign, dd, dm, ds, vm, sp) :
        len \in lens, hd \in hds, rah \in rahs, ram \in rams, ras \in rass,
        sign \in signs, dd \in dds, dm \in dms, ds \in dss, vm \in vms,
        sp \in sps }

\* Single lines: full-length lines with every combination of the field values,
\* every spectral code, and every length.
LineInputs ==
    LineFamily({130, 131}, HdFields, RaHourFields, RaMinFields, RaSecFields,
               SignFields, DegFields, DecMinFields, DecSecFields, MagFields,
               {<<"O">>, <<"S">>, <<"X">>})
    \cup
    LineFamily({129, 130, 131}, HdFields, RaHourFields, {<<"4", "5">>},
               {<<"0", "8", ".", "9">>}, {<<"+">>, <<"-">>}, {<<"1", "6">>},
               {<<"4", "2">>}, {<<"5", "8">>}, MagFields, SpFields)
    \cup
    LineFamily(LineLens, HdFields, RaHourFields, RaMinFields,
               {<<"0", "8", ".", "9">>}, {<<"+">>}, {<<"1", "6">>},
               {<<"4", "2">>}, DecSecFields, MagFields, {<<"O">>, <<"X">>})

Hd1 == <<"0", "3", "9", "8", "0", "1">>

\* The lines whole files are made of.
SampleLines ==
    { MkLine(131, Hd1, <<"0", "6">>, <<"4", "5">>, <<"0", "8", ".", "9">>, <<"+">>,
             <<"1", "6">>, <<"4", "2">>, <<"5", "8">>, <<"2", ".", "5", "0">>, <<"O">>),
      MkLine(131, Hd1, <<"1", "4">>, <<"3", "9">>, <<"3", "6", ".", "5">>, <<"-">>,
             <<"6", "0">>, <<"5", "0">>, <<"0", "2">>, <<"-", "1", ".", "5">>, <<"K">>),
      MkLine(130, Blanks(6), <<"0", "5">>, <<"1", "4">>, <<"3", "2", ".", "3">>, <<"-">>,
             <<"0", "8">>, <<"1", "2">>, <<"0", "6">>, <<"-", "1", ".", "0">>, <<"S">>),
      MkLine(131, Hd1, <<"2", "3">>, <<"0", "0">>, <<"0", "0", ".", "0">>, <<"+">>,
             <<"8", "9">>, <<"1", "5">>, <<"5", "1">>, <<"6", ".", "0", "0">>, <<"G">>),
      MkLine(131, Hd1, <<"1", "0">>, <<"0", "8">>, <<"2", "2", ".", "3">>, <<"+">>,
             <<"1", "1">>, <<"5", "8">>, <<"0", "2">>, <<"9", ".", "1", "2">>, <<"M">>),
      MkLine(131, Hd1, <<"0", "2">>, <<"3", "1">>, <<"4", "8", ".", "7">>, <<"+">>,
             <<"8", "9">>, <<"1", "5">>, <<"5", "1">>, <<"-", "N", "a", "N">>, <<"F">>),
      MkLine(131, Hd1, <<" ", " ">>, Blanks(2), Blanks(4), <<" ">>,
             Blanks(2), Blanks(2), Blanks(2), Blanks(4), <<" ">>),
      MkLine(110, Hd1, <<"0", "6">>, <<"4", "5">>, <<"0", "8", ".", "9">>, <<"+">>,
             <<"1", "6">>, <<"4", "2">>, <<"5", "8">>, Blanks(4), <<"O">>),
      MkLine(131, Hd1, <<"0", "6">>, <<"4", "5">>, <<"0", "8", ".", "9">>, <<"+">>,
             <<"1", "6">>, <<"4", "2">>, <<"5", "8">>, <<"2", ".", "5", "0">>, <<"X">>),
      <<>> }

\* The line sequences contents.lines() can yield, up to MaxLines lines.
Files == UNION { [1..n -> SampleLines] : n \in 0..MaxLines }

\* ----------------------------------------------------------------- program

NoCatalogue == [some |-> FALSE, v |-> <<>>]

Init ==
    /\ pc = "start"
    /\ contents = <<>>
    /\ idx = 0
    /\ out = <<>>
    /\ catalogue = NoCatalogue
    /\ star_data = <<>>
    /\ frames = 0
    /\ abortAt = 0

\* A panic: the process ends; abortAt is the source line.
Abort(at) ==
    /\ pc' = "aborted"
    /\ abortAt' = at

\* main up to load_catalogue: RenderManager::new(..).unwrap() may fail.
Startup ==
    /\ pc = "start"
    /\ \E ok \in BOOLEAN :
          IF ok THEN pc' = "open" /\ abortAt' = abortAt ELSE Abort(126)
    /\ UNCHANGED <<contents, idx, out, catalogue, star_data, frames>>

\* File::open("bsc5.dat").expect(..)
OpenFile ==
    /\ pc = "open"
    /\ \E exists \in BOOLEAN :
          IF exists THEN pc' = "read" /\ abortAt' = abortAt ELSE Abort(44)
    /\ UNCHANGED <<contents, idx, out, catalogue, star_data, frames>>

\* f.read_to_string(&mut contents).expect(..), then contents.lines()
ReadFile ==
    /\ pc = "read"
    /\ \E readable \in BOOLEAN :
          IF readable
          THEN /\ \E f \in Files : contents' = f
               /\ pc' = "parse"
               /\ abortAt' = abortAt
          ELSE Abort(47) /\ contents' = contents
    /\ UNCHANGED <<idx, out, catalogue, star_data, frames>>

\* Mutant of filter_map_step: the record is put in front.
filter_map_step_prepend(acc, r) == IF r.kind = "some" THEN <<r.star>> \o acc ELSE acc

\* What filter_map does with one parse result: keep a Some, pass over a None.
filter_map_step(acc, r) == IF r.kind = "some" THEN Append(acc, r.star) ELSE acc

\* Mutant of ParseNext: a line that panics is passed over like a None.
ParseNext_skip_panic ==
    /\ pc = "parse"
    /\ idx < Len(contents)
    /\ LET r == parse_catalogue_line(contents[idx + 1])
       IN  /\ out' = filter_map_step(out, r)
           /\ idx' = idx + 1
    /\ UNCHANGED <<pc, abortAt, contents, catalogue, star_data, frames>>

\* One step of lines().filter_map(parse_catalogue_line): the next line.
ParseNext ==
    /\ pc = "parse"
    /\ idx < Len(contents)
    /\ LET r == parse_catalogue_line(contents[idx + 1])
       IN  IF r.kind = "abort"
           THEN Abort(r.at) /\ UNCHANGED <<idx, out>>
           ELSE /\ out' = filter_map_step(out, r)
                /\ idx' = idx + 1
                /\ UNCHANGED <<pc, abortAt>>
    /\ UNCHANGED <<contents, catalogue, star_data, frames>>

\* .collect::<Vec<Star>>() at the end of the lines: load_catalogue returns.
Collect ==
    /\ pc = "parse"
    /\ idx = Len(contents)
    /\ catalogue' = [some |-> TRUE, v |-> out]
    /\ pc' = "project"
    /\ UNCHANGED <<contents, idx, out, star_data, frames, abortAt>>

\* The for loop over &catalogue filling star_data.
Project ==
    /\ pc = "project"
    /\ star_data' = build_star_data(catalogue.v)
    /\ pc' = "upload"
    /\ UNCHANGED <<contents, idx, out, catalogue, frames, abortAt>>

\* The unsafe block: &star_data[0] panics on an empty vector; a nonzero
\* gl::GetError() panics.
Upload ==
    /\ pc = "upload"
    /\ IF star_data = <<>>
       THEN Abort(171)
       ELSE \E e \in {0, 1} :
               IF e # 0 THEN Abort(209) ELSE pc' = "render" /\ abortAt' = abortAt
    /\ UNCHANGED <<contents, idx, out, catalogue, star_data, frames>>

\* One iteration of the render loop: the frame callback draws the stars.
Frame ==
    /\ pc = "render"
    /\ frames < MaxFrames
    /\ frames' = frames + 1
    /\ UNCHANGED <<pc, contents, idx, out, catalogue, star_data, abortAt>>

Next ==
    \/ Startup
    \/ OpenFile
    \/ ReadFile
    \/ ParseNext
    \/ Collect
    \/ Project
    \/ Upload
    \/ Frame

Spec == Init /\ [][Next]_vars

\* load_catalogue's parsing of a file of one line, for every line of LineInputs.
InitLine ==
    /\ pc = "parse"
    /\ contents \in {<<l>> : l \in LineInputs}
    /\ idx = 0
    /\ out = <<>>
    /\ catalogue = NoCatalogue
    /\ star_data = <<>>
    /\ frames = 0
    /\ abortAt = 0

NextLine ==
    \/ ParseNext
    \/ Collect

SpecLine == InitLine /\ [][NextLine]_vars

\* =================================================================== claims
\* What the claims speak of, stated on the text of a line without the parser.

\* The characters of the half-open range [a, b) of a line that holds them.
Field(line, a, b) == [i \in 1..(b - a) |-> line[a + i]]

Unsigned(s) == IF s # <<>> /\ s[1] \in {"+", "-"} THEN Tail(s) ELSE s

\* s is written as an integer: an optional sign, then digits only.
IsIntText(s) ==
    /\ Unsigned(s) # <<>>
    /\ \A i \in 1..Len(Unsigned(s)) : Unsigned(s)[i] \in Digits

RECURSIVE Ten(_)
Ten(n) == IF n = 0 THEN 1 ELSE 10 * Ten(n - 1)

RECURSIVE PlaceSum(_, _)
PlaceSum(s, i) ==
    IF i > Len(s) THEN 0 ELSE DigitVal(s[i]) * Ten(Len(s) - i) + PlaceSum(s, i + 1)

\* The number an integer text denotes.
IntValueOf(s) ==
    IF s[1] = "-" THEN 0 - PlaceSum(Unsigned(s), 1) ELSE PlaceSum(Unsigned(s), 1)

IsDigitsOnly(s) == s # <<>> /\ \A i \in 1..Len(s) : s[i] \in Digits

RaHoursParses(line) == Len(line) >= 77 /\ IsIntText(Field(line, 75, 77))

MagParses(line) == Len(line) >= 107 /\ ParseF32(Field(line, 103, 107)).ok

\* The field is there and is not a number.
RaHoursFails(line) == Len(line) >= 77 /\ ~IsIntText(Field(line, 75, 77))

MagFails(line) == Len(line) >= 107 /\ ~ParseF32(Field(line, 103, 107)).ok

IdParses(line) == Len(line) >= 31 /\ IsIntText(Field(line, 25, 31))

\* RA-minutes, RA-seconds and the three declination parts all parse.
FiveParse(line) ==
    /\ Len(line) >= 90
    /\ IsIntText(Field(line, 77, 79))
    /\ ParseF32(Field(line, 79, 83)).ok
    /\ IsIntText(Field(line, 84, 86))
    /\ IsIntText(Field(line, 86, 88))
    /\ IsIntText(Field(line, 88, 90))

KnownCodes == {"O", "B", "A", "F", "G", "K", "M", "S", "N", "C", "W", "p"}

CodeKnown(line) == Len(line) >= 130 /\ line[130] \in KnownCodes

ClassOf(c) ==
    IF c \in {"S", "N", "C"} THEN "M" ELSE IF c \in {"W", "p"} THEN "O" ELSE c

SignOf(line) == IF line[84] = "+" THEN 1 ELSE -1

\* The state of load_catalogue on a file of the one line contents[1].
TheLine == contents[1]

Done == pc = "aborted" \/ idx = 1

Aborted == pc = "aborted" /\ out = <<>> /\ ~catalogue.some

Dropped == pc # "aborted" /\ idx = 1 /\ out = <<>>

Produced == pc # "aborted" /\ idx = 1 /\ Len(out) = 1

\* C1 as stated: a line whose RA-hours field or visual-magnitude field is not
\* a number is dropped, without a record and without an abort, whatever its
\* other fields hold.
C1_unparsable_is_dropped ==
    (Done /\ (RaHoursFails(TheLine) \/ MagFails(TheLine))) => Dropped

\* C1 as amended: a line of at least 107 characters whose RA-hours field or
\* visual-magnitude field is not a number is dropped, without a record and
\* without an abort, whatever its other fields hold, and the load goes on to
\* return a list without it.
C1_long_unparsable_is_dropped ==
    /\ (Done /\ Len(TheLine) >= 107 /\ (RaHoursFails(TheLine) \/ MagFails(TheLine)))
          => Dropped
    /\ (catalogue.some /\ (RaHoursFails(TheLine) \/ MagFails(TheLine)))
          => catalogue.v = <<>>

C1_witness ==
    /\ catalogue.some
    /\ Dropped
    /\ Len(TheLine) >= 130
    /\ MagFails(TheLine)
    /\ RaHoursParses(TheLine)
    /\ ~FiveParse(TheLine)
    /\ ~CodeKnown(TheLine)

ValidLine(line) ==
    /\ Len(line) >= 130
    /\ IdParses(line)
    /\ RaHoursParses(line)
    /\ MagParses(line)
    /\ FiveParse(line)
    /\ CodeKnown(line)

\* C2: a valid line, of at least 130 characters with every field well-formed,
\* yields exactly one record, and each field of the record is the number
\* written at its byte range, the declination parts times the sign at 83.
C2_record_equals_fields ==
    (Done /\ ValidLine(TheLine)) =>
        /\ Produced
        /\ out[1].hd_num = IntValueOf(Field(TheLine, 25, 31))
        /\ out[1].ra_hours = IntValueOf(Field(TheLine, 75, 77))
        /\ out[1].ra_mins = IntValueOf(Field(TheLine, 77, 79))
        /\ out[1].ra_seconds = ParseF32(Field(TheLine, 79, 83)).f
        /\ out[1].dec_deg = SignOf(TheLine) * IntValueOf(Field(TheLine, 84, 86))
        /\ out[1].dec_mins = SignOf(TheLine) * IntValueOf(Field(TheLine, 86, 88))
        /\ out[1].dec_seconds = SignOf(TheLine) * IntValueOf(Field(TheLine, 88, 90))
        /\ out[1].visual_mag = ParseF32(Field(TheLine, 103, 107)).f
        /\ out[1].spec_type = ClassOf(TheLine[130])

C2_witness ==
    /\ Produced
    /\ ValidLine(TheLine)
    /\ out[1].hd_num = 39801
    /\ out[1].ra_seconds = Fin(8900)
    /\ out[1].dec_mins = -42
    /\ out[1].visual_mag = Fin(-1500)

\* C3: on a line whose RA-hours and visual magnitude parse, an identifier that
\* does not parse still gives a record, with identifier 0; any of RA-minutes,
\* RA-seconds, declination degrees, minutes, seconds not parsing, or an
\* unrecognised spectral code, aborts the load; so a record is produced only
\* when every field but the identifier is good.
C3_identifier_falls_back_others_abort ==
    (Done /\ RaHoursParses(TheLine) /\ MagParses(TheLine)) =>
        /\ (FiveParse(TheLine) /\ CodeKnown(TheLine) /\ ~IdParses(TheLine))
              => (Produced /\ out[1].hd_num = 0)
        /\ (~FiveParse(TheLine) \/ ~CodeKnown(TheLine)) => Aborted
        /\ Produced => (FiveParse(TheLine) /\ CodeKnown(TheLine))

C3_witness ==
    /\ Produced
    /\ ~IdParses(TheLine)
    /\ out[1].hd_num = 0
    /\ out[1].ra_hours = 6
    /\ catalogue.some

\* The line is accepted and every field before the spectral code is good.
ReachesCode(line) ==
    Len(line) >= 130 /\ RaHoursParses(line) /\ MagParses(line) /\ FiveParse(line)

\* C4: on an accepted line the code at 129 gives its class: O B A F G K M
\* themselves, S N C give M, W and p give O, any other character aborts the
\* load; no record has a class outside O B A F G K M.
C4_spectral_mapping ==
    /\ (Done /\ ReachesCode(TheLine)) =>
          LET c == TheLine[130]
          IN  /\ c \in {"O", "B", "A", "F", "G", "K", "M"}
                    => (Produced /\ out[1].spec_type = c)
              /\ c \in {"S", "N", "C"} => (Produced /\ out[1].spec_type = "M")
              /\ c \in {"W", "p"} => (Produced /\ out[1].spec_type = "O")
              /\ c \notin KnownCodes => Aborted
    /\ \A i \in 1..Len(out) : out[i].spec_type \in {"O", "B", "A", "F", "G", "K", "M"}
    /\ \A i \in 1..Len(catalogue.v) :
          catalogue.v[i].spec_type \in {"O", "B", "A", "F", "G", "K", "M"}

C4_witness ==
    /\ Produced
    /\ TheLine[130] = "p"
    /\ out[1].spec_type = "O"

\* The sign character times each parsed declination part.
SignApplied ==
    Produced =>
        /\ out[1].dec_deg = SignOf(TheLine) * IntValueOf(Field(TheLine, 84, 86))
        /\ out[1].dec_mins = SignOf(TheLine) * IntValueOf(Field(TheLine, 86, 88))
        /\ out[1].dec_seconds = SignOf(TheLine) * IntValueOf(Field(TheLine, 88, 90))

DecParts(star) == {star.dec_deg, star.dec_mins, star.dec_seconds}

\* C5 as stated: with "+" the three declination parts keep the parsed value,
\* with any other sign character they are its negation, and the three parts
\* of a record never have mixed signs.
C5_sign_uniform_never_mixed ==
    /\ SignApplied
    /\ Produced => ~(\E x, y \in DecParts(out[1]) : x < 0 /\ y > 0)

\* C5 as amended: with "+" the three declination parts keep the parsed value,
\* with any other sign character they are its negation; when the three fields
\* are digits only, the parts never have mixed signs (none negative under "+",
\* none positive otherwise).
C5_sign_uniform ==
    /\ SignApplied
    /\ (/\ Produced
        /\ IsDigitsOnly(Field(TheLine, 84, 86))
        /\ IsDigitsOnly(Field(TheLine, 86, 88))
        /\ IsDigitsOnly(Field(TheLine, 88, 90)))
          => IF TheLine[84] = "+"
             THEN \A x \in DecParts(out[1]) : x >= 0
             ELSE \A x \in DecParts(out[1]) : x <= 0

C5_witness ==
    /\ Produced
    /\ TheLine[84] = " "
    /\ out[1].dec_deg = -16
    /\ out[1].dec_mins = -42
    /\ out[1].dec_seconds = -58

\* C10: a line shorter than 107 characters aborts the load; a line of 107 to
\* 129 characters is dropped when RA-hours or the magnitude does not parse and
\* aborts the load when both parse; a record comes only from a line of at
\* least 130 characters.
C10_short_lines ==
    /\ (Done /\ Len(TheLine) < 107) => Aborted
    /\ (Done /\ Len(TheLine) >= 107 /\ Len(TheLine) <= 129) =>
          /\ (RaHoursFails(TheLine) \/ MagFails(TheLine)) => Dropped
          /\ (RaHoursParses(TheLine) /\ MagParses(TheLine)) => Aborted
    /\ Produced => Len(TheLine) >= 130

C10_witness ==
    /\ Aborted
    /\ abortAt = 65
    /\ Len(TheLine) = 129
    /\ RaHoursParses(TheLine)
    /\ MagParses(TheLine)
    /\ FiveParse(TheLine)

\* ------------------------------------------------- claims on the whole run

\* The brightness a of star i as it was pushed (the red component, a itself),
\* and 1.0, in the colour components' unit of 1/140000.
BrightnessOf(i) == star_data[6 * (i - 1) + 4]

MagOf(i) == catalogue.v[i].visual_mag

UnitBrightness == 7000 * 20

\* The for loop over the catalogue has run.
StarDataBuilt ==
    catalogue.some /\ (pc \in {"upload", "render"} \/ (pc = "aborted" /\ abortAt > 100))

Stars == 1..Len(catalogue.v)

\* Magnitude of star i is no greater than that of star j, both being numbers.
NoFainter(i, j) ==
    /\ MagOf(i).k = "fin"
    /\ MagOf(j).k = "fin"
    /\ MagOf(i).v <= MagOf(j).v

\* C6 as stated: a = clamp((6.0 - visual_mag)/7.0, 0.0, 1.0): within [0, 1],
\* non-increasing in the magnitude, 0 for magnitude 6 or fainter, exactly 1
\* for magnitude -1 or brighter.
C6_brightness_clamped_to_unit ==
    StarDataBuilt =>
        /\ \A i \in Stars :
              /\ BrightnessOf(i).k = "fin"
              /\ BrightnessOf(i).v >= 0
              /\ BrightnessOf(i).v <= UnitBrightness
              /\ (MagOf(i).k = "fin" /\ MagOf(i).v >= 6000) => BrightnessOf(i).v = 0
              /\ (MagOf(i).k = "fin" /\ MagOf(i).v <= -1000)
                    => BrightnessOf(i).v = UnitBrightness
        /\ \A i, j \in Stars : NoFainter(i, j) => BrightnessOf(i).v >= BrightnessOf(j).v

\* C6 as amended: a = max((6.0 - visual_mag)/7.0, 0.0), with no upper clamp:
\* never negative, non-increasing in the magnitude, 0 for magnitude 6 or
\* fainter (and for a NaN magnitude), exactly 1 at magnitude -1 and greater
\* than 1 for every magnitude brighter than -1.
C6_brightness_clamped_below ==
    StarDataBuilt =>
        /\ \A i \in Stars :
              /\ BrightnessOf(i).k \in {"fin", "inf"}
              /\ BrightnessOf(i).v >= 0
              /\ MagOf(i).k = "nan" => BrightnessOf(i) = Fin(0)
              /\ MagOf(i).k = "fin" =>
                    /\ BrightnessOf(i).k = "fin"
                    /\ BrightnessOf(i).v =
                          20 * (IF 6000 - MagOf(i).v > 0 THEN 6000 - MagOf(i).v ELSE 0)
                    /\ MagOf(i).v >= 6000 => BrightnessOf(i).v = 0
                    /\ MagOf(i).v = -1000 => BrightnessOf(i).v = UnitBrightness
                    /\ MagOf(i).v < -1000 => BrightnessOf(i).v > UnitBrightness
        /\ \A i, j \in Stars : NoFainter(i, j) => BrightnessOf(i).v >= BrightnessOf(j).v

C6_witness ==
    /\ StarDataBuilt
    /\ Len(catalogue.v) = 3
    /\ MagOf(1) = Fin(9120) /\ BrightnessOf(1) = Fin(0)
    /\ MagOf(2) = Fin(-1500) /\ BrightnessOf(2) = Fin(150000)
    /\ MagOf(3) = Fin(-1000) /\ BrightnessOf(3) = Fin(140000)

\* The line makes load_catalogue panic: too short for the slices taken before
\* the decision, or accepted with a bad required field or spectral code.
LineAborts(line) ==
    \/ Len(line) < 107
    \/ /\ RaHoursParses(line)
       /\ MagParses(line)
       /\ (~FiveParse(line) \/ ~CodeKnown(line))

\* C7: when a line aborts the load, or the file is missing or unreadable,
\* load_catalogue returns no list, not even the records of earlier lines, and
\* no frame is rendered; a frame callback runs only after the whole catalogue
\* was loaded.
C7_no_frame_without_full_load ==
    /\ (\E i \in 1..Len(contents) : LineAborts(contents[i]))
          => (~catalogue.some /\ frames = 0 /\ star_data = <<>> /\ pc # "render")
    /\ (pc = "aborted" /\ abortAt < 100)
          => (~catalogue.some /\ frames = 0 /\ star_data = <<>>)
    /\ frames > 0 =>
          /\ catalogue.some
          /\ idx = Len(contents)
          /\ \A i \in 1..Len(contents) : ~LineAborts(contents[i])

C7_witness ==
    /\ pc = "aborted"
    /\ abortAt = 79
    /\ idx = 2
    /\ Len(out) = 1
    /\ ~LineAborts(contents[1])
    /\ ~LineAborts(contents[2])
    /\ LineAborts(contents[3])
    /\ ~catalogue.some

\* The record of an accepted line, read off its text.
RecordOf(line) ==
    [hd_num      |-> IF IdParses(line) THEN IntValueOf(Field(line, 25, 31)) ELSE 0,
     ra_hours    |-> IntValueOf(Field(line, 75, 77)),
     ra_mins     |-> IntValueOf(Field(line, 77, 79)),
     ra_seconds  |-> ParseF32(Field(line, 79, 83)).f,
     dec_deg     |-> SignOf(line) * IntValueOf(Field(line, 84, 86)),
     dec_mins    |-> SignOf(line) * IntValueOf(Field(line, 86, 88)),
     dec_seconds |-> SignOf(line) * IntValueOf(Field(line, 88, 90)),
     visual_mag  |-> ParseF32(Field(line, 103, 107)).f,
     spec_type   |-> ClassOf(line[130])]

\* The records of the lines whose RA-hours and magnitude parse, in file order.
RECURSIVE RecordsOf(_)
RecordsOf(ls) ==
    IF ls = <<>> THEN <<>>
    ELSE (IF RaHoursParses(Head(ls)) /\ MagParses(Head(ls))
          THEN <<RecordOf(Head(ls))>> ELSE <<>>) \o RecordsOf(Tail(ls))

\* C8: the list load_catalogue returns holds one record for each line whose
\* RA-hours and magnitude parse and none for any other line, in file order.
C8_returned_list_is_accepted_lines_in_order ==
    catalogue.some => catalogue.v = RecordsOf(contents)

C8_witness ==
    /\ catalogue.some
    /\ Len(contents) = 3
    /\ RaHoursParses(contents[1]) /\ MagParses(contents[1])
    /\ ~MagParses(contents[2])
    /\ RaHoursParses(contents[3]) /\ MagParses(contents[3])
    /\ Len(catalogue.v) = 2
    /\ catalogue.v[1].spec_type = "K"
    /\ catalogue.v[2].spec_type = "O"

\* C9: for every list load_catalogue returns, the empty one included, building
\* the per-star data and handing it to the renderer does not abort, gives six
\* values per record in record order, and the render loop is reached.
C9_projection_has_no_error_path ==
    catalogue.some =>
        /\ ~(pc = "aborted" /\ abortAt = 171)
        /\ pc \in {"upload", "render"} =>
              /\ Len(star_data) = 6 * Len(catalogue.v)
              /\ \A i \in Stars :
                    SubSeq(star_data, 6 * (i - 1) + 1, 6 * i) = star_vertex(catalogue.v[i])

=============================================================================
